---- MODULE Spec2Model ----
(***************************************************************************)
(* Model of the backtesting engine of inkosi (the outcome simulator):      *)
(*   checker         src/src/inkosi/backtest/operation/backtest.py:112-149 *)
(*   backtest        src/src/inkosi/backtest/operation/backtest.py:152-298 *)
(*   filter_dataset  src/src/inkosi/backtest/operation/backtest.py:70-109  *)
(*   Asset.sampling  src/src/inkosi/backtest/operation/asset.py:59-160     *)
(*   technical_column  src/src/inkosi/backtest/operation/backtest.py:35-67 *)
(* and of three functions of the order-management service:                 *)
(*   get_ask_of_symbol, get_bid_of_symbol                                  *)
(*                           src/src/inkosi/api/metatrader.py:254-323      *)
(*   open_position           src/src/inkosi/api/metatrader.py:369-515      *)
(*   network_policies_check  src/src/inkosi/app/dependencies.py:8-23       *)
(*                                                                         *)
(* The tick matrix is the numeric matrix of Dataset.get_dataset(): a       *)
(* sequence of rows <<datetime, bid, ask>>.  The code indexes rows and     *)
(* columns from 0; the model keeps the code's 0-based indices and          *)
(* translates at the single place a cell is read (Cell).                   *)
(***************************************************************************)
EXTENDS Integers, Sequences, FiniteSets

VARIABLES
  dataset,            \* the tick matrix (request.dataset.get_dataset())
  \* one call of checker
  ck_args,            \* its arguments
  current_index,      \* the scan index of its while loop
  ck_pc,              \* "idle", "loop", "returned"
  ck_ret,             \* its return value
  \* one call of backtest
  same_length,        \* len(request.direction) = len(request.starting_indexes)
  request,            \* the candidates the for loop has consumed, in order
  result,             \* the list of BacktestRecord
  entry_point_price,  \* loop-carried locals of backtest
  trade_result,
  trade_status,
  pc,                 \* "start", "loop", "returned", "aborted", "raised"
  raised,             \* the exception that left backtest, or "none"
  \* one call of filter_dataset
  data_frame,         \* the OHLC series, one row per bar
  filters,            \* the rules the for loop has consumed, in order
  indexes_list,       \* the running set of positional indices
  fd_pc,              \* "idle", "start", "loop", "returned", "raised"
  fd_raised,          \* the exception that left filter_dataset, or "none"
  fd_ret,             \* the array filter_dataset returns
  \* one call of Asset.sampling
  asset_result,       \* self.result: the downloaded columns
  sp_args,            \* its arguments
  sampling,           \* the matrix of draws (the local `sampling`)
  sp_pc,              \* "idle", "start", "valid", "returned", "raised"
  sp_ret,             \* its return value
  sp_raised,          \* the exception that left it, or "none"
  \* one call of technical_column (on data_frame)
  column_type,        \* its second argument
  additional_information,  \* its third argument, a dict
  tc_pc,              \* "idle", "start", "called", "returned"
  tc_ret,             \* what the call gave: a column, None or an exception
  \* one call of get_ask_of_symbol or get_bid_of_symbol
  tk_side,            \* "ask" or "bid": which of the two was called
  ticks,              \* the prices mt5.symbol_info_tick gave, one per frame
  tk_frames,          \* the frames of the recursion still on the stack
  tk_pc,              \* "idle", "reading", "unwinding", "returned"
  tk_ret,             \* what the outermost frame returned
  \* one call of open_position
  order,              \* its first argument, a TradeRequest
  allow_no_risk_limits,  \* its second argument
  inference,          \* RiskManagement().inference
  op_request,         \* the local dict `request`
  sent,               \* the requests given to mt5.order_send
  op_pc,              \* "idle", "start", "pricing", "returned", "raised"
  op_status,          \* the status of the result returned
  \* network_policies_check, one request at a time
  allowed_ip_addresses,  \* get_allowed_ip_addresses(), cached
  client_host,        \* request.client.host
  np_pc,              \* "idle", "waiting", "checking", "admitted", "rejected"
  np_status           \* the status code of the HTTPException raised, or 0

ckVars == <<ck_args, current_index, ck_pc, ck_ret>>
btVars == <<same_length, request, result, entry_point_price, trade_result, trade_status, pc, raised>>
fdVars == <<data_frame, filters, indexes_list, fd_pc, fd_raised, fd_ret>>
spVars == <<asset_result, sp_args, sampling, sp_pc, sp_ret, sp_raised>>
tcVars == <<column_type, additional_information, tc_pc, tc_ret>>
tkVars == <<tk_side, ticks, tk_frames, tk_pc, tk_ret>>
opVars == <<order, allow_no_risk_limits, inference, op_request, sent, op_pc, op_status>>
npVars == <<allowed_ip_addresses, client_host, np_pc, np_status>>
apiVars == <<tkVars, opVars, npVars>>
restVars == <<spVars, tcVars, apiVars>>
vars == <<dataset, ck_args, current_index, ck_pc, ck_ret, same_length, request, result,
          entry_point_price, trade_result, trade_status, pc, raised,
          data_frame, filters, indexes_list, fd_pc, fd_raised, fd_ret,
          asset_result, sp_args, sampling, sp_pc, sp_ret, sp_raised,
          column_type, additional_information, tc_pc, tc_ret,
          tk_side, ticks, tk_frames, tk_pc, tk_ret,
          order, allow_no_risk_limits, inference, op_request, sent, op_pc, op_status,
          allowed_ip_addresses, client_host, np_pc, np_status>>

\* ------------------------------------------------------------ bounds
MaxRows == 3
MaxCands == 2
MaxBars == 3
MaxRules == 2
MaxHistory == 2
MaxSteps == 3
MaxSamples == 2

\* The values the inputs are drawn from.  Datetimes ascend by one per row from
\* a start that is either among the prices (0) or above every price and
\* boundary (9, as a numeric timestamp is).
PriceVals == {0, 2}
DtStarts == {0, 9}
TpVals == {0, 2}
SlVals == {-2, 0}

\* ------------------------------------------------- program constants
TICKS_DATETIME_INDEX == 0
TICKS_BID_INDEX == 1
TICKS_ASK_INDEX == 2
DefaultDelta == 20000

BUY == "buy"
SELL == "sell"
\* A direction string that is no member of Position.
HOLD == "hold"
Directions == {BUY, SELL, HOLD}
PositionHas(key) == key \in {BUY, SELL}

PROFIT == "profit"
LOSS == "loss"
PENDING == "pending"
CLOSED == "closed"
\* A local of backtest that no iteration has assigned yet.  The price local
\* holds <<>> while unbound and <<price>> once assigned.
UNBOUND == "unbound"
NoPrice == <<>>

\* Python's None as a checker result; every offset the code returns is > 0.
None == -1

\* ---------------------------------------------------------- helpers
Abs(x) == IF x < 0 THEN -x ELSE x
Min2(a, b) == IF a < b THEN a ELSE b
\* The least element of a non-empty set of integers (used by the claims).
SetMin(S) == CHOOSE x \in S : \A y \in S : x <= y

\* dataset[r, c] with the code's 0-based row and column.
Cell(ds, r, c) == ds[r + 1][c + 1]
NRows(ds) == Len(ds)
NCols(ds) == Len(ds[1])

\* The tick matrices: 1..MaxRows rows, ascending datetimes.
RowsOf(n) == [1..n -> PriceVals \X PriceVals]
MkDataset(n, d0, pr) == [i \in 1..n |-> <<d0 + i - 1, pr[i][1], pr[i][2]>>]
Datasets == UNION {{MkDataset(n, d0, pr) : d0 \in DtStarts, pr \in RowsOf(n)} : n \in 1..MaxRows}

\* ---------------------------------------------------------- checker
\* The comparison of one cell of the chunk (backtest.py:132-133, 140-141).
CellHit(direction, v, entry_point, take_profit, stop_loss) ==
  IF direction = BUY THEN v >= entry_point + take_profit
  ELSE v <= entry_point - Abs(stop_loss)

\* The number of rows in dataset[current_index : current_index + delta]
\* (cur is current_index): a slice stops at the end of the matrix.
ChunkRows(ds, cur, delta) ==
  Min2(cur + delta, NRows(ds)) - cur

\* The first flat position f, from..last, of the row-major flattening of the
\* chunk whose cell satisfies the comparison; 0 when there is none.
RECURSIVE FirstTrue(_, _, _, _, _, _, _, _)
FirstTrue(ds, direction, cur, entry_point, take_profit, stop_loss, f, last) ==
  IF f > last THEN 0
  ELSE IF CellHit(direction, Cell(ds, cur + (f \div NCols(ds)), f % NCols(ds)),
                  entry_point, take_profit, stop_loss)
       THEN f
       ELSE FirstTrue(ds, direction, cur, entry_point, take_profit, stop_loss,
                      f + 1, last)

\* np.argmax over the boolean chunk: the chunk is two-dimensional (rows x
\* columns) and argmax is taken without an axis, so the index is into the
\* row-major flattening: the first true cell, 0 when no cell is true.
ChunkArgMax(ds, direction, cur, entry_point, take_profit, stop_loss, delta) ==
  FirstTrue(ds, direction, cur, entry_point, take_profit, stop_loss,
            0, ChunkRows(ds, cur, delta) * NCols(ds) - 1)

\* The while loop of checker from a given current_index (cur) to its return.
RECURSIVE CheckerLoop(_, _, _, _, _, _, _)
CheckerLoop(ds, direction, cur, entry_point, take_profit, stop_loss, delta) ==
  IF cur < NRows(ds)
  THEN LET res == ChunkArgMax(ds, direction, cur, entry_point,
                                 take_profit, stop_loss, delta)
       IN IF res = 0
          THEN CheckerLoop(ds, direction, cur + delta, entry_point,
                           take_profit, stop_loss, delta)
          ELSE res
  ELSE None

Checker(ds, direction, starting_index, entry_point, take_profit, stop_loss, delta) ==
  IF ~PositionHas(direction) THEN None
  ELSE CheckerLoop(ds, direction, starting_index, entry_point, take_profit,
                   stop_loss, delta)

\* ------------------------------------------- checker, step by step
Deltas == {1, 2, DefaultDelta}
NoArgs == [direction |-> HOLD, starting_index |-> 0, entry_point |-> 0,
           take_profit |-> 0, stop_loss |-> 0, delta |-> DefaultDelta]
CheckerArgs(ds) ==
  [direction : Directions, starting_index : 0..NRows(ds), entry_point : PriceVals,
   take_profit : TpVals, stop_loss : SlVals, delta : Deltas]

CheckerIdle ==
  /\ ck_args = NoArgs
  /\ current_index = 0
  /\ ck_pc = "idle"
  /\ ck_ret = None

BacktestIdle ==
  /\ same_length = TRUE
  /\ request = <<>>
  /\ result = <<>>
  /\ entry_point_price = NoPrice
  /\ trade_result = UNBOUND
  /\ trade_status = UNBOUND
  /\ pc = "idle"
  /\ raised = "none"

\* The call: backtest.py:121-126.
CheckerCall ==
  /\ ck_pc = "idle"
  /\ \E a \in CheckerArgs(dataset) :
       /\ ck_args' = a
       /\ current_index' = a.starting_index
       /\ IF ~PositionHas(a.direction)
          THEN ck_pc' = "returned" /\ ck_ret' = None
          ELSE ck_pc' = "loop" /\ ck_ret' = ck_ret
  /\ UNCHANGED <<dataset, fdVars, restVars, btVars>>

\* CheckerIterate with the scan index left where it is when nothing is found.
CheckerIterateStuck ==
  /\ ck_pc = "loop"
  /\ current_index < NRows(dataset)
  /\ LET r == ChunkArgMax(dataset, ck_args.direction, current_index,
                          ck_args.entry_point, ck_args.take_profit,
                          ck_args.stop_loss, ck_args.delta)
     IN IF r = 0
        THEN UNCHANGED <<current_index, ck_pc, ck_ret>>
        ELSE /\ ck_ret' = r
             /\ ck_pc' = "returned"
             /\ UNCHANGED current_index
  /\ UNCHANGED <<dataset, fdVars, restVars, ck_args, btVars>>

\* One iteration of the while loop: backtest.py:128-149.
CheckerIterate ==
  /\ ck_pc = "loop"
  /\ current_index < NRows(dataset)
  /\ LET r == ChunkArgMax(dataset, ck_args.direction, current_index,
                          ck_args.entry_point, ck_args.take_profit,
                          ck_args.stop_loss, ck_args.delta)
     IN IF r = 0
        THEN /\ current_index' = current_index + ck_args.delta
             /\ UNCHANGED <<ck_pc, ck_ret>>
        ELSE /\ ck_ret' = r
             /\ ck_pc' = "returned"
             /\ UNCHANGED current_index
  /\ UNCHANGED <<dataset, fdVars, restVars, ck_args, btVars>>

\* The loop condition fails: the function falls off its end and returns None.
CheckerExhausted ==
  /\ ck_pc = "loop"
  /\ current_index >= NRows(dataset)
  /\ ck_ret' = None
  /\ ck_pc' = "returned"
  /\ UNCHANGED <<dataset, fdVars, restVars, ck_args, current_index, btVars>>

\* np.array(s) of a Python set s: numpy does not iterate a set, it wraps it
\* as the single item of a 0-dimensional object array (shape ()).
NpArrayOfSet(s) == [shape |-> <<>>, item |-> s]
NoArray == NpArrayOfSet({})

\* No call of filter_dataset is under way.
FilterIdle ==
  /\ data_frame = <<>>
  /\ filters = <<>>
  /\ indexes_list = {}
  /\ fd_pc = "idle"
  /\ fd_raised = "none"
  /\ fd_ret = NoArray

\* No call of Asset.sampling is under way.
NoSamplingArgs == [sampling_method |-> "", steps_forward |-> 0, column |-> "",
                   samples |-> 0]
NoSampling == [kind |-> "None", x |-> <<>>, y |-> <<>>]
SamplingIdle ==
  /\ asset_result = <<>>
  /\ sp_args = NoSamplingArgs
  /\ sampling = <<>>
  /\ sp_pc = "idle"
  /\ sp_ret = NoSampling
  /\ sp_raised = "none"

\* No call of technical_column is under way.
NoColumn == [kind |-> "None", exc |-> "none", length |-> 0, values |-> <<>>]
ColumnIdle ==
  /\ column_type = ""
  /\ additional_information = {}
  /\ tc_pc = "idle"
  /\ tc_ret = NoColumn

\* No call of get_ask_of_symbol or get_bid_of_symbol is under way.  Absent is
\* Python's None where a float may stand; a float p that is there is <<p>>.
Absent == <<>>
TickIdle ==
  /\ tk_side = ""
  /\ ticks = <<>>
  /\ tk_frames = 0
  /\ tk_pc = "idle"
  /\ tk_ret = Absent

\* No call of open_position is under way.
NoOrder == [ticker |-> "", risk_management |-> FALSE, volume |-> 0, operation |-> "",
            take_profit |-> Absent, stop_loss |-> Absent]
NoRequest == [symbol |-> "", volume |-> 0, type |-> "", price |-> Absent]
OpenIdle ==
  /\ order = NoOrder
  /\ allow_no_risk_limits = FALSE
  /\ inference = <<>>
  /\ op_request = NoRequest
  /\ sent = <<>>
  /\ op_pc = "idle"
  /\ op_status = ""

\* The service takes no request.
NoAddresses == [type |-> "str", text |-> "", list |-> {}]
NetworkIdle ==
  /\ allowed_ip_addresses = NoAddresses
  /\ client_host = 0
  /\ np_pc = "idle"
  /\ np_status = 0

ApiIdle == TickIdle /\ OpenIdle /\ NetworkIdle

\* Nothing but the function a specification is about is under way.
RestIdle == SamplingIdle /\ ColumnIdle /\ ApiIdle

InitChecker ==
  /\ dataset \in Datasets
  /\ CheckerIdle
  /\ BacktestIdle
  /\ FilterIdle
  /\ RestIdle

NextChecker == CheckerCall \/ CheckerIterate \/ CheckerExhausted

SpecChecker == InitChecker /\ [][NextChecker]_vars

\* The call runs on: a step of checker that can be taken is taken.
SpecCheckerFair == SpecChecker /\ WF_vars(NextChecker)

\* --------------------------------------------------------- backtest
\* The candidates of a request: one element of each of the four vectors.
Cands == [occurence : 0..MaxRows, direction : Directions,
          take_profit : TpVals, stop_loss : SlVals]

\* dataset[entry_point_index + offset, TICKS_DATETIME_INDEX]: what the read of
\* `last` raises (backtest.py:204-207 and its seven copies).
LastRead(ds, entry_point_index, offset) ==
  IF offset = None THEN "TypeError"
  ELSE IF entry_point_index + offset >= NRows(ds) THEN "IndexError"
  ELSE "none"

\* backtest.py:200-220 (BUY) and 239-259 (SELL): the == 0 checks.
ZeroChecks(ds, direction, entry_point_index, result_up, result_down) ==
  IF result_down = 0
  THEN [exc |-> LastRead(ds, entry_point_index, result_up),
        trade_result |-> IF direction = BUY THEN PROFIT ELSE LOSS,
        trade_status |-> CLOSED]
  ELSE IF result_up = 0
  THEN [exc |-> LastRead(ds, entry_point_index, result_down),
        trade_result |-> IF direction = BUY THEN LOSS ELSE PROFIT,
        trade_status |-> CLOSED]
  ELSE [exc |-> "none", trade_result |-> PENDING, trade_status |-> PENDING]

\* Comparison with the SELL branch a copy of the BUY branch (the two blocks of
\* the source differ only in PROFIT and LOSS being swapped).
ComparisonSellAsBuy(ds, direction, entry_point_index, result_up, result_down) ==
  IF result_up = None \/ result_down = None
  THEN [exc |-> "TypeError", trade_result |-> PENDING, trade_status |-> PENDING]
  ELSE IF result_up < result_down
  THEN [exc |-> LastRead(ds, entry_point_index, result_up),
        trade_result |-> PROFIT, trade_status |-> CLOSED]
  ELSE [exc |-> LastRead(ds, entry_point_index, result_down),
        trade_result |-> LOSS, trade_status |-> CLOSED]

\* Comparison with the assignment of trade_status left out of its else
\* branch: the status stays what the == 0 checks left, PENDING.
ComparisonStaleStatus(ds, direction, entry_point_index, result_up, result_down) ==
  IF result_up = None \/ result_down = None
  THEN [exc |-> "TypeError", trade_result |-> PENDING, trade_status |-> PENDING]
  ELSE IF result_up < result_down
  THEN [exc |-> LastRead(ds, entry_point_index, result_up),
        trade_result |-> IF direction = BUY THEN PROFIT ELSE LOSS,
        trade_status |-> CLOSED]
  ELSE [exc |-> LastRead(ds, entry_point_index, result_down),
        trade_result |-> IF direction = BUY THEN LOSS ELSE PROFIT,
        trade_status |-> PENDING]

\* backtest.py:222-237 (BUY) and 261-276 (SELL): the unconditional
\* comparison result_up < result_down, which raises TypeError on a None.
Comparison(ds, direction, entry_point_index, result_up, result_down) ==
  IF result_up = None \/ result_down = None
  THEN [exc |-> "TypeError", trade_result |-> PENDING, trade_status |-> PENDING]
  ELSE IF result_up < result_down
  THEN [exc |-> LastRead(ds, entry_point_index, result_up),
        trade_result |-> IF direction = BUY THEN PROFIT ELSE LOSS,
        trade_status |-> CLOSED]
  ELSE [exc |-> LastRead(ds, entry_point_index, result_down),
        trade_result |-> IF direction = BUY THEN LOSS ELSE PROFIT,
        trade_status |-> CLOSED]

\* backtest.py:199-276 for a direction of Position.
Classify(ds, direction, entry_point_index, result_up, result_down) ==
  LET z == ZeroChecks(ds, direction, entry_point_index, result_up, result_down)
  IN IF z.exc # "none" THEN z
     ELSE Comparison(ds, direction, entry_point_index, result_up, result_down)

\* EntryPrice with the two price columns taken for each other.
EntryPriceSwapped(ds, direction, entry_point_index, prev) ==
  IF direction = BUY \/ direction = SELL
  THEN IF entry_point_index >= NRows(ds)
       THEN [exc |-> "IndexError", price |-> prev]
       ELSE [exc |-> "none",
             price |-> <<Cell(ds, entry_point_index,
                              IF direction = BUY THEN TICKS_ASK_INDEX
                              ELSE TICKS_BID_INDEX)>>]
  ELSE [exc |-> "none", price |-> prev]

\* backtest.py:177-180: the entry price, or the exception the read raises;
\* another direction leaves the local as the previous iteration left it.
EntryPrice(ds, direction, entry_point_index, prev) ==
  IF direction = BUY \/ direction = SELL
  THEN IF entry_point_index >= NRows(ds)
       THEN [exc |-> "IndexError", price |-> prev]
       ELSE [exc |-> "none",
             price |-> <<Cell(ds, entry_point_index,
                              IF direction = BUY THEN TICKS_BID_INDEX
                              ELSE TICKS_ASK_INDEX)>>]
  ELSE [exc |-> "none", price |-> prev]

ResultUp(ds, entry_point_index, price, c) ==
  Checker(ds, BUY, entry_point_index, price, c.take_profit, c.stop_loss, DefaultDelta)
ResultDown(ds, entry_point_index, price, c) ==
  Checker(ds, SELL, entry_point_index, price, c.take_profit, c.stop_loss, DefaultDelta)

\* BacktestRecord with the two distances handed over in each other's place.
BacktestRecordSwapped(c, entry_point_index, price, status, res) ==
  [direction |-> c.direction, entry_point |-> price,
   entry_point_index |-> entry_point_index, take_profit |-> c.stop_loss,
   stop_loss |-> c.take_profit, status |-> status, result |-> res]

BacktestRecord(c, entry_point_index, price, status, res) ==
  [direction |-> c.direction, entry_point |-> price,
   entry_point_index |-> entry_point_index, take_profit |-> c.take_profit,
   stop_loss |-> c.stop_loss, status |-> status, result |-> res]

\* backtest.py:171: the guard `occurence + 1 > n_dataset` of the break.
OutOfDataLate(ds, c) == c.occurence > NRows(ds)
OutOfData(ds, c) == c.occurence + 1 > NRows(ds)

\* One iteration of the for loop, backtest.py:171-296, for candidate c with the
\* locals as the previous iteration left them: what it does ("break",
\* "raise", "append") and the locals it leaves.  An exception ends the call,
\* so the locals of a raising iteration are reported as they were before it.
LoopBody(ds, c, prev_price, prev_result, prev_status) ==
  LET entry_point_index == c.occurence + 1
      ep == EntryPrice(ds, c.direction, entry_point_index, prev_price)
      stay == [kind |-> "break", exc |-> "none", price |-> prev_price,
               trade_result |-> prev_result, trade_status |-> prev_status]
  IN IF OutOfData(ds, c) THEN stay
     ELSE IF ep.exc # "none" THEN [stay EXCEPT !.kind = "raise", !.exc = ep.exc]
     ELSE IF ep.price = NoPrice
     THEN [stay EXCEPT !.kind = "raise", !.exc = "UnboundLocalError"]
     ELSE LET result_up == ResultUp(ds, entry_point_index, ep.price[1], c)
              result_down == ResultDown(ds, entry_point_index, ep.price[1], c)
              cl == IF PositionHas(c.direction)
                    THEN Classify(ds, c.direction, entry_point_index,
                                  result_up, result_down)
                    ELSE [exc |-> IF prev_status = UNBOUND
                                  THEN "UnboundLocalError" ELSE "none",
                          trade_result |-> prev_result,
                          trade_status |-> prev_status]
          IN IF cl.exc # "none"
             THEN [stay EXCEPT !.kind = "raise", !.exc = cl.exc]
             ELSE [kind |-> "append", exc |-> "none", price |-> ep.price,
                   trade_result |-> cl.trade_result,
                   trade_status |-> cl.trade_status]

BacktestEntry ==
  /\ same_length = TRUE
  /\ request = <<>>
  /\ result = <<>>
  /\ entry_point_price = NoPrice
  /\ trade_result = UNBOUND
  /\ trade_status = UNBOUND
  /\ pc = "start"
  /\ raised = "none"

\* BacktestBegin without the length check: the loop is entered in any case.
BacktestBeginNoCheck ==
  /\ pc = "start"
  /\ \E len_direction \in 0..MaxCands, len_starting_indexes \in 0..MaxCands :
       /\ same_length' = (len_direction = len_starting_indexes)
       /\ pc' = "loop"
  /\ UNCHANGED <<dataset, fdVars, restVars, ckVars, request, result, entry_point_price,
                 trade_result, trade_status, raised>>

\* backtest.py:154-163: the call and the length check.  Only the outcome of
\* the check is kept: how many candidates the zip of the four vectors yields
\* is left open (at most MaxCands), see BacktestReturn.
BacktestBegin ==
  /\ pc = "start"
  /\ \E len_direction \in 0..MaxCands, len_starting_indexes \in 0..MaxCands :
       /\ same_length' = (len_direction = len_starting_indexes)
       /\ pc' = IF len_direction # len_starting_indexes THEN "aborted" ELSE "loop"
  /\ UNCHANGED <<dataset, fdVars, restVars, ckVars, request, result, entry_point_price,
                 trade_result, trade_status, raised>>

\* backtest.py:165-296: the next candidate of the zip.
BacktestIterate ==
  /\ pc = "loop"
  /\ Len(request) < MaxCands
  /\ \E c \in Cands :
       \E o \in {LoopBody(dataset, c, entry_point_price, trade_result, trade_status)} :
          /\ request' = Append(request, c)
          /\ pc' = CASE o.kind = "break" -> "returned"
                      [] o.kind = "raise" -> "raised"
                      [] OTHER -> "loop"
          /\ raised' = o.exc
          /\ entry_point_price' = o.price
          /\ trade_result' = o.trade_result
          /\ trade_status' = o.trade_status
          /\ IF o.kind = "append"
             THEN result' = Append(result,
                                   BacktestRecord(c, c.occurence + 1, o.price[1],
                                                  o.trade_status, o.trade_result))
             ELSE result' = result
  /\ UNCHANGED <<dataset, fdVars, restVars, ckVars, same_length>>

\* backtest.py:165, 298: the zip is exhausted (the candidates consumed so far
\* were the whole request) and the list is returned.
BacktestReturn ==
  /\ pc = "loop"
  /\ pc' = "returned"
  /\ UNCHANGED <<dataset, fdVars, restVars, ckVars, same_length, request, result, entry_point_price,
                 trade_result, trade_status, raised>>

Init ==
  /\ dataset \in Datasets
  /\ CheckerIdle
  /\ BacktestEntry
  /\ FilterIdle
  /\ RestIdle

Next == BacktestBegin \/ BacktestIterate \/ BacktestReturn

Spec == Init /\ [][Next]_vars

\* --------------------------------------------------- filter_dataset
\* schemas.py: the keys of a ComparisonElement (a dict), the registered raw
\* columns, the indicators and the relations.
ELEMENT == "ELEMENT"
PERIOD == "PERIOD"
AvailableRawColumns == {"Dates", "Open", "High", "Low", "Close", "Returns"}
AvailableTechincalIndicators == {"SMA", "WMA", "EMA"}
Relation == {">", ">=", "<", "<=", "=="}
\* settings.py: TechnicalIndicators.MovingAveragePeriod, a configured value.
MovingAveragePeriod == 2

\* The values the inputs are drawn from.  A bar carries the two raw columns
\* the rules below name; "Volume" is a column name that is neither registered
\* nor an indicator, "!=" a relation string that is no member of Relation.
BarVals == {0, 1}
Bars == [Open : BarVals, Close : BarVals]
Frames == UNION {[1..n -> Bars] : n \in 0..MaxBars}
ElementNames == {"Open", "Close", "SMA", "WMA", "EMA", "Volume"}
PeriodVals == {3}
RelationVals == Relation \cup {"!="}
\* A dict is the set of its <<key, value>> items.
ComparisonElements ==
  {{<<ELEMENT, e>>} : e \in ElementNames}
  \cup {{<<ELEMENT, e>>, <<PERIOD, p>>} :
          e \in AvailableTechincalIndicators, p \in PeriodVals}
Filters == [first_element : ComparisonElements,
            second_element : ComparisonElements,
            relation : RelationVals]

\* dict.get(key, default).
Get(d, key, default) ==
  IF \E kv \in d : kv[1] = key
  THEN (CHOOSE kv \in d : kv[1] = key)[2]
  ELSE default

\* set(data_frame.index): the positions 0 .. n-1 of the RangeIndex.
Index(frame) == 0..(Len(frame) - 1)

\* backtest.py:35-39: the parameters of technical_column, none with a default.
TechnicalColumnParams == <<"data_frame", "column_type", "additional_information">>

\* What Python raises when it binds a call with npos positional arguments and
\* the keyword arguments named in keywords to the parameters params: a keyword
\* that names no parameter, a parameter given twice, or a parameter left
\* without a value is a TypeError.
CallError(params, npos, keywords) ==
  LET names == {params[i] : i \in 1..Len(params)}
      positional == {params[i] : i \in 1..Min2(npos, Len(params))}
  IN IF \/ npos > Len(params)
        \/ \E k \in keywords : k \notin names
        \/ \E k \in keywords : k \in positional
        \/ \E k \in names : k \notin positional /\ k \notin keywords
     THEN "TypeError"
     ELSE "none"

\* backtest.py:77-84: one iteration of the for loop up to its first call of
\* technical_column, technical_column(data_frame=..., technical_indicator=...).
\* The call names a parameter technical_column does not have and gives neither
\* column_type nor additional_information, so it raises before the function
\* is entered, whatever the rule; lines 86-107 are never executed.
FilterBody(rule) ==
  LET exc == CallError(TechnicalColumnParams, 0, {"data_frame", "technical_indicator"})
  IN [kind |-> IF exc = "none" THEN "bound" ELSE "raise", exc |-> exc]

\* filter_dataset(data_frame, filters) as a function: the exception that
\* leaves it, or the set it returns.
FilterDataset(frame, rules) ==
  IF rules = <<>>
  THEN [exc |-> "none", indexes |-> Index(frame)]
  ELSE [exc |-> FilterBody(Head(rules)).exc, indexes |-> {}]

FilterEntry ==
  /\ filters = <<>>
  /\ indexes_list = {}
  /\ fd_pc = "start"
  /\ fd_raised = "none"
  /\ fd_ret = NoArray

\* FilterCall with the running set started empty instead of from the index.
FilterCallEmpty ==
  /\ fd_pc = "start"
  /\ indexes_list' = {}
  /\ fd_pc' = "loop"
  /\ UNCHANGED <<dataset, ckVars, btVars, restVars, data_frame, filters, fd_raised, fd_ret>>

\* backtest.py:74: indexes_list = set(data_frame.index).
FilterCall ==
  /\ fd_pc = "start"
  /\ indexes_list' = Index(data_frame)
  /\ fd_pc' = "loop"
  /\ UNCHANGED <<dataset, ckVars, btVars, restVars, data_frame, filters, fd_raised, fd_ret>>

\* FilterIterate with the rule passed over when it cannot be evaluated: it is
\* consumed, nothing is raised and the running set stays as it is.
FilterIterateSkips ==
  /\ fd_pc = "loop"
  /\ Len(filters) < MaxRules
  /\ \E rule \in Filters : filters' = Append(filters, rule)
  /\ UNCHANGED <<dataset, ckVars, btVars, restVars, data_frame, indexes_list, fd_pc, fd_raised, fd_ret>>

\* backtest.py:76-107: the next rule of the list.
FilterIterate ==
  /\ fd_pc = "loop"
  /\ Len(filters) < MaxRules
  /\ \E rule \in Filters :
       \E o \in {FilterBody(rule)} :
          /\ o.kind = "raise"
          /\ filters' = Append(filters, rule)
          /\ fd_pc' = "raised"
          /\ fd_raised' = o.exc
  /\ UNCHANGED <<dataset, ckVars, btVars, restVars, data_frame, indexes_list, fd_ret>>

\* backtest.py:76, 109: the list is exhausted (the rules consumed so far were
\* the whole list) and np.array(indexes_list) is returned.
FilterReturn ==
  /\ fd_pc = "loop"
  /\ fd_pc' = "returned"
  /\ fd_ret' = NpArrayOfSet(indexes_list)
  /\ UNCHANGED <<dataset, ckVars, btVars, restVars, data_frame, filters, indexes_list, fd_raised>>

InitFilter ==
  /\ dataset = <<>>
  /\ CheckerIdle
  /\ BacktestIdle
  /\ data_frame \in Frames
  /\ FilterEntry
  /\ RestIdle

NextFilter == FilterCall \/ FilterIterate \/ FilterReturn

SpecFilter == InitFilter /\ [][NextFilter]_vars

\* ------------------------------------------------- technical_column
\* A cell of a column: <<numerator, denominator>>, or NaN.  A raw value v is
\* <<v, 1>>, a mean of p values <<their sum, p>>.
NaN == <<>>

RECURSIVE SumOf(_, _, _)
SumOf(q, from, to) == IF from > to THEN 0 ELSE q[from] + SumOf(q, from + 1, to)

\* data_frame.ta.sma(close=..., length=p).to_numpy(): the mean of the last p
\* values, undefined for the first p - 1 positions.
Sma(close, p) ==
  [i \in 1..Len(close) |-> IF i < p THEN NaN ELSE <<SumOf(close, i - p + 1, i), p>>]

\* data_frame[name] for a column the frame carries.
RawColumn(frame, name) == [i \in 1..Len(frame) |-> <<frame[i][name], 1>>]
ClosePrices(frame) == [i \in 1..Len(frame) |-> frame[i].Close]

\* backtest.py:35-67.  A registered raw column is returned as it is; SMA and
\* WMA are both ta.sma with length additional_information.get(PERIOD,
\* MovingAveragePeriod); the EMA branch calls the dict itself,
\* additional_information(PERIOD, ...), which raises TypeError; any other
\* column type falls off the end of the function (None).
TechnicalColumn(frame, ctype, info) ==
  IF ctype \in AvailableRawColumns
  THEN IF ctype \in {"Open", "Close"}
       THEN [kind |-> "Series", exc |-> "none", length |-> 0,
             values |-> RawColumn(frame, ctype)]
       ELSE [kind |-> "raise", exc |-> "KeyError", length |-> 0, values |-> <<>>]
  ELSE IF ctype \in {"SMA", "WMA"}
  THEN LET length == Get(info, PERIOD, MovingAveragePeriod)
       IN [kind |-> "ndarray", exc |-> "none", length |-> length,
           values |-> Sma(ClosePrices(frame), length)]
  ELSE IF ctype = "EMA"
  THEN [kind |-> "raise", exc |-> "TypeError", length |-> 0, values |-> <<>>]
  ELSE NoColumn

\* The calls considered: technical_column(data_frame, e[ELEMENT], e) for an
\* operand e of a rule, on a frame that has at least as many bars as the
\* period of an indicator operand.
ColumnCall ==
  /\ tc_pc = "start"
  /\ \E e \in ComparisonElements :
       /\ Get(e, ELEMENT, "") \in AvailableTechincalIndicators
            => /\ Get(e, PERIOD, MovingAveragePeriod) >= 1
               /\ Get(e, PERIOD, MovingAveragePeriod) <= Len(data_frame)
       /\ column_type' = Get(e, ELEMENT, "")
       /\ additional_information' = e
  /\ tc_pc' = "called"
  /\ UNCHANGED <<dataset, ckVars, btVars, spVars, apiVars, data_frame, filters,
                 indexes_list, fd_pc, fd_raised, fd_ret, tc_ret>>

ColumnReturn ==
  /\ tc_pc = "called"
  /\ tc_ret' = TechnicalColumn(data_frame, column_type, additional_information)
  /\ tc_pc' = "returned"
  /\ UNCHANGED <<dataset, ckVars, btVars, spVars, apiVars, fdVars, column_type,
                 additional_information>>

InitColumn ==
  /\ dataset = <<>>
  /\ CheckerIdle
  /\ BacktestIdle
  /\ SamplingIdle
  /\ data_frame \in Frames
  /\ filters = <<>>
  /\ indexes_list = {}
  /\ fd_pc = "idle"
  /\ fd_raised = "none"
  /\ fd_ret = NoArray
  /\ column_type = ""
  /\ additional_information = {}
  /\ tc_pc = "start"
  /\ tc_ret = NoColumn
  /\ ApiIdle

NextColumn == ColumnCall \/ ColumnReturn

SpecColumn == InitColumn /\ [][NextColumn]_vars

\* --------------------------------------------------- Asset.sampling
\* schemas.py:159-171: the sampling methods; "Bootstrap" is a method string
\* that is no member of SamplingMethods.
NORMAL_DISTRIBUTION == "Normal Sampling"
LAPLACE_DISTRIBUTION == "Laplace Sampling"
UNIFORM_DISTRIBUTION == "Uniform Sampling"
SamplingMethods == {NORMAL_DISTRIBUTION, LAPLACE_DISTRIBUTION, UNIFORM_DISTRIBUTION}
MethodVals == SamplingMethods \cup {"Bootstrap"}

\* asset.py:77, 80: the limits of the two range checks, `1 < steps_forward <
\* 255` and `1 <= samples < 10000`.
StepsAbove == 1
StepsBelow == 255
SamplesFrom == 1
SamplesBelow == 10000

\* The values the inputs are drawn from.  The downloaded columns are Close,
\* a numpy array, and Returns, which Quote.download_quote stores as a Python
\* list (quote.py:107); "Volume" is a column the download does not carry.
\* Steps and samples are drawn from the small values, for which the matrix is
\* built, and from both sides of the upper limits.
HistVals == {1, 2}
ReturnVals == {0, 1}
NoiseVals == {-1, 1}
AssetResults ==
  UNION {[Close : [1..h -> HistVals], Returns : [1..h -> ReturnVals]] :
           h \in 1..MaxHistory}
ColumnVals == {"Close", "Returns", "Volume"}
StepsVals == (1..MaxSteps) \cup {StepsBelow - 1, StepsBelow}
SamplesVals == (0..MaxSamples) \cup {SamplesBelow - 1, SamplesBelow}
SamplingArgs == [sampling_method : MethodVals, steps_forward : StepsVals,
                 column : ColumnVals, samples : SamplesVals]

SeqMax(q) == CHOOSE x \in {q[i] : i \in 1..Len(q)} : \A i \in 1..Len(q) : q[i] <= x
SeqMin(q) == CHOOSE x \in {q[i] : i \in 1..Len(q)} : \A i \in 1..Len(q) : x <= q[i]

\* asset.py:77-81: the two checks that return None (the arguments of the
\* model are integers, so the isinstance tests pass).
ValidSteps(steps_forward) == StepsAbove < steps_forward /\ steps_forward < StepsBelow
ValidSamples(samples) == SamplesFrom <= samples /\ samples < SamplesBelow

\* asset.py:83: self.result.get(column, np.array([0])), with the Python type
\* of the value.
Prices(res, column) ==
  IF column = "Close" THEN [type |-> "ndarray", values |-> res.Close]
  ELSE IF column = "Returns" THEN [type |-> "list", values |-> res.Returns]
  ELSE [type |-> "ndarray", values |-> <<0>>]

\* UniformDraws with the range laid around 0 instead of above it.
UniformDrawsSigned(prices) ==
  (-(SeqMax(prices) - SeqMin(prices)))..(SeqMax(prices) - SeqMin(prices))

\* The values one draw can take.  Normal and Laplace draws are centred on 0
\* with scale np.std(self.close_prices()) (asset.py:88-94, 113-119): all 0
\* when the close prices are constant, of either sign otherwise.  Uniform
\* draws lie between 0 and max(prices) - min(prices) (138-142).
UniformDraws(prices) == 0..(SeqMax(prices) - SeqMin(prices))
DrawVals(method, res, prices) ==
  IF method = UNIFORM_DISTRIBUTION THEN UniformDraws(prices)
  ELSE IF SeqMax(res.Close) = SeqMin(res.Close) THEN {0}
  ELSE NoiseVals

\* np.cumsum along a row.
RECURSIVE CumSum(_)
CumSum(q) ==
  IF Len(q) <= 1 THEN q
  ELSE LET front == CumSum(SubSeq(q, 1, Len(q) - 1))
       IN Append(front, front[Len(front)] + q[Len(q)])

\* asset.py:84, 96-97, 101-110: per sample the history followed by the
\* cumulative sums of the last price and the row's draws.
SamplingMatrix(prices, samples, draws) ==
  [r \in 1..samples |-> prices \o CumSum(<<prices[Len(prices)]>> \o draws[r])]

\* asset.py:252-257: plotting with a sampling: (np.arange(0, columns), sampling).
Plotting(matrix) ==
  [kind |-> "tuple", x |-> [j \in 1..Len(matrix[1]) |-> j - 1], y |-> matrix]

SamplingEntry ==
  /\ sp_args = NoSamplingArgs
  /\ sampling = <<>>
  /\ sp_pc = "start"
  /\ sp_ret = NoSampling
  /\ sp_raised = "none"

coreVars == <<dataset, ckVars, btVars, fdVars>>

\* asset.py:59-81: the call and the two range checks.
SamplingCall ==
  /\ sp_pc = "start"
  /\ \E a \in SamplingArgs :
       /\ sp_args' = a
       /\ sp_pc' = IF ValidSteps(a.steps_forward) /\ ValidSamples(a.samples)
                   THEN "valid" ELSE "returned"
  /\ UNCHANGED <<coreVars, tcVars, apiVars, asset_result, sampling, sp_ret, sp_raised>>

\* asset.py:83-160: the draws and the matrix, for a known method; None for
\* another.  The matrix is built for up to MaxSamples samples of up to
\* MaxSteps steps.  np.reshape(prices, (prices.shape[0], 1)) (104, 129, 151)
\* reads .shape of the column, which a list does not have: AttributeError,
\* after the draws were made.
SamplingDraw ==
  /\ sp_pc = "valid"
  /\ sp_args.steps_forward <= MaxSteps
  /\ sp_args.samples <= MaxSamples
  /\ LET p == Prices(asset_result, sp_args.column)
     IN IF sp_args.sampling_method \notin SamplingMethods
        THEN /\ sp_pc' = "returned"
             /\ UNCHANGED <<sampling, sp_ret, sp_raised>>
        ELSE \E draws \in [1..sp_args.samples ->
                            [1..(sp_args.steps_forward - 1) ->
                               DrawVals(sp_args.sampling_method, asset_result, p.values)]] :
               /\ sampling' = draws
               /\ IF p.type = "list"
                  THEN /\ sp_pc' = "raised"
                       /\ sp_raised' = "AttributeError"
                       /\ UNCHANGED sp_ret
                  ELSE /\ sp_pc' = "returned"
                       /\ sp_ret' = Plotting(SamplingMatrix(p.values, sp_args.samples, draws))
                       /\ UNCHANGED sp_raised
  /\ UNCHANGED <<coreVars, tcVars, apiVars, asset_result, sp_args>>

InitSampling ==
  /\ dataset = <<>>
  /\ CheckerIdle
  /\ BacktestIdle
  /\ FilterIdle
  /\ asset_result \in AssetResults
  /\ SamplingEntry
  /\ ColumnIdle
  /\ ApiIdle

NextSampling == SamplingCall \/ SamplingDraw

SpecSampling == InitSampling /\ [][NextSampling]_vars

\* ------------------------- get_ask_of_symbol, get_bid_of_symbol
\* metatrader.py:254-323.  The two functions differ in the field of the tick
\* they read (283: .ask, 319: .bid); tk_side says which one runs.  Each frame
\* of the recursion reads one tick; ticks holds what the frames read, in order.
MaxTicks == 4
TickVals == {-1, 0, 1, 2}
TickSides == {"ask", "bid"}

backVars == <<coreVars, spVars, tcVars>>
BackIdle ==
  /\ dataset = <<>>
  /\ CheckerIdle
  /\ BacktestIdle
  /\ FilterIdle
  /\ SamplingIdle
  /\ ColumnIdle

\* The outermost frame is entered.
TickEnter(side) ==
  /\ tk_side' = side
  /\ ticks' = <<>>
  /\ tk_frames' = 1
  /\ tk_pc' = "reading"
  /\ tk_ret' = Absent

TickCall ==
  /\ tk_pc = "idle"
  /\ op_pc = "idle"
  /\ \E side \in TickSides : TickEnter(side)
  /\ UNCHANGED <<backVars, opVars, npVars>>

\* 283-287 (319-323): the frame on top reads a tick.  A positive price is
\* returned (285); when the frame is not the outermost one, the value goes to
\* the frame below, whose call at 287 is an expression statement and drops it.
\* Otherwise the function calls itself (287).
TickRead ==
  /\ tk_pc = "reading"
  /\ Len(ticks) < MaxTicks
  /\ \E p \in TickVals :
       /\ ticks' = Append(ticks, p)
       /\ IF p > 0
          THEN /\ tk_frames' = tk_frames - 1
               /\ IF tk_frames = 1
                  THEN /\ tk_pc' = "returned"
                       /\ tk_ret' = <<p>>
                  ELSE /\ tk_pc' = "unwinding"
                       /\ UNCHANGED tk_ret
          ELSE /\ tk_frames' = tk_frames + 1
               /\ UNCHANGED <<tk_pc, tk_ret>>
  /\ UNCHANGED <<backVars, opVars, npVars, tk_side>>

\* 287 (323) onwards: the call made at 287 has returned; the frame reaches the
\* end of the function without a return statement and so returns None.
TickUnwind ==
  /\ tk_pc = "unwinding"
  /\ tk_frames' = tk_frames - 1
  /\ tk_ret' = Absent
  /\ tk_pc' = IF tk_frames = 1 THEN "returned" ELSE "unwinding"
  /\ UNCHANGED <<backVars, opVars, npVars, tk_side, ticks>>

InitTick ==
  /\ BackIdle
  /\ ApiIdle

NextTick == TickCall \/ TickRead \/ TickUnwind

SpecTick == InitTick /\ [][NextTick]_vars

\* ----------------------------------------------------- open_position
\* metatrader.py:369-515.  Floats are modelled as integers.  An order field
\* that is None is Absent (take_profit, stop_loss), "" (ticker, operation),
\* FALSE (risk_management) or 0 (volume): the code only tests these four for
\* truth or matches them against a pattern.
Tickers == {"", "EURUSD"}
Operations == {"BUY", "SELL", ""}
VolumeVals == {0, 1}
LevelVals == {Absent, <<1>>}
Orders == [ticker : Tickers, risk_management : BOOLEAN, volume : VolumeVals,
           operation : Operations, take_profit : LevelVals, stop_loss : LevelVals]

\* risk_management.py:145-149: (Volume, TakeProfit, StopLoss) of the settings;
\* 0 is the default of TakeProfit and StopLoss (settings.py:257-258).
Inferences == {<<1, tp, sl>> : tp \in {0, 1}, sl \in {0, 1}}
compute_volume == inference[1]
adjust_take_profit == inference[2]
adjust_stop_loss == inference[3]

\* request[key] = value (463, 472, 483).
SetItem(req, key, value) ==
  [k \in DOMAIN req \cup {key} |-> IF k = key THEN value ELSE req[k]]

\* price + level for a BUY, price - level for a SELL (443-447, 458-462), and
\* the other way round for the stop loss (467-471, 483-487).
Above(position, price, level) ==
  IF position = "BUY" THEN price[1] + level ELSE price[1] - level
Below(position, price, level) ==
  IF position = "BUY" THEN price[1] - level ELSE price[1] + level

Go(req) == [kind |-> "go", status |-> "", request |-> req]
Return(status, req) == [kind |-> "return", status |-> status, request |-> req]
\* float + None, None + float: TypeError.
Raise(req) == [kind |-> "raise", status |-> "TypeError", request |-> req]

\* 441-463.  For a float the level is computed into the local take_profit
\* (443-447) and the request is left as it is.
TakeProfitOf(req, position, price) ==
  IF order.take_profit # Absent
  THEN IF price = Absent THEN Raise(req) ELSE Go(req)
  ELSE IF adjust_take_profit = 0
       THEN IF ~allow_no_risk_limits
            THEN Return("NO_TAKE_PROFIT_SPECIFIED", req)
            ELSE Go(req)
       ELSE IF price = Absent
            THEN Raise(req)
            ELSE Go(SetItem(req, "tp", Above(position, price, adjust_take_profit)))

\* 465-487.
StopLossOf(req, position, price) ==
  IF order.stop_loss # Absent
  THEN IF price = Absent
       THEN Raise(req)
       ELSE Go(SetItem(req, "sl", Below(position, price, order.stop_loss[1])))
  ELSE IF adjust_stop_loss = 0
       THEN IF ~allow_no_risk_limits
            THEN Return("NO_STOP_LOSS_SPECIFIED", req)
            ELSE Go(req)
       ELSE IF price = Absent
            THEN Raise(req)
            ELSE Go(SetItem(req, "sl", Below(position, price, adjust_stop_loss)))

\* 441-487: both matches, the second only when the first fell through.
RiskLimits(req, position, price) ==
  LET tp == TakeProfitOf(req, position, price)
  IN IF tp.kind = "go" THEN StopLossOf(tp.request, position, price) ELSE tp

OpenReturn(status) ==
  /\ op_pc' = "returned"
  /\ op_status' = status

\* 373-413: the checks of the order, the volume and the price asked for.
\* What mt5 says of the ticker (381, 387) is any of its answers.
OpenCall ==
  /\ op_pc = "start"
  /\ \E exists \in BOOLEAN, opened \in BOOLEAN :
       LET volume == IF ~order.risk_management THEN compute_volume ELSE order.volume
       IN IF order.ticker = ""
          THEN OpenReturn("NO_TICKER_PROVIDED") /\ UNCHANGED <<tkVars, op_request>>
          ELSE IF ~exists
          THEN OpenReturn("TICKER_NOT_FOUND") /\ UNCHANGED <<tkVars, op_request>>
          ELSE IF ~opened
          THEN OpenReturn("MARKET_CLOSED") /\ UNCHANGED <<tkVars, op_request>>
          ELSE IF order.risk_management /\ volume = 0
          THEN OpenReturn("NO_VOLUME_PROVIDED") /\ UNCHANGED <<tkVars, op_request>>
          ELSE IF order.operation \notin {"BUY", "SELL"}
          THEN OpenReturn("NO_OPERATION_SPECIFIED") /\ UNCHANGED <<tkVars, op_request>>
          ELSE /\ TickEnter(IF order.operation = "BUY" THEN "ask" ELSE "bid")
               /\ op_request' = [op_request EXCEPT !.volume = volume]
               /\ op_pc' = "pricing"
               /\ UNCHANGED op_status
  /\ UNCHANGED <<backVars, npVars, order, allow_no_risk_limits, inference, sent>>

\* 416-515: get_ask_of_symbol or get_bid_of_symbol has returned; the request
\* is built, completed with the risk limits and sent.
OpenSend ==
  /\ op_pc = "pricing"
  /\ tk_pc = "returned"
  /\ \E filling \in BOOLEAN, filled \in BOOLEAN :
       LET req == [symbol |-> order.ticker, volume |-> op_request.volume,
                   type |-> order.operation, price |-> tk_ret]
           limits == RiskLimits(req, order.operation, tk_ret)
       IN IF ~filling
          THEN OpenReturn("NO_FILLING_TYPE_FOUND") /\ UNCHANGED <<op_request, sent>>
          ELSE /\ op_request' = limits.request
               /\ IF limits.kind = "return"
                  THEN OpenReturn(limits.status) /\ UNCHANGED sent
                  ELSE IF limits.kind = "raise"
                  THEN /\ op_pc' = "raised"
                       /\ op_status' = limits.status
                       /\ UNCHANGED sent
                  ELSE /\ sent' = Append(sent, limits.request)
                       /\ OpenReturn(IF filled THEN "ORDER_FILLED" ELSE "NO_ORDER_FILLING")
  /\ UNCHANGED <<backVars, npVars, tkVars, order, allow_no_risk_limits, inference>>

InitOpen ==
  /\ BackIdle
  /\ TickIdle
  /\ NetworkIdle
  /\ order \in Orders
  /\ allow_no_risk_limits \in BOOLEAN
  /\ inference \in Inferences
  /\ op_request = NoRequest
  /\ sent = <<>>
  /\ op_pc = "start"
  /\ op_status = ""

NextOpen == OpenCall \/ TickRead \/ TickUnwind \/ OpenSend

SpecOpen == InitOpen /\ [][NextOpen]_vars

\* --------------------------------------------- network_policies_check
\* dependencies.py:8-23.  get_allowed_ip_addresses() (settings.py:497-517) is
\* the setting AllowedIPAddresses, a str or a list, read once and cached.
\* Addresses are numbered; a list is used for membership only (19) and is
\* modelled as the set of its members.
MaxAddrs == 4
Addrs == 1..MaxAddrs
HTTP_403_FORBIDDEN == 403
AllowedSettings ==
  [type : {"str"}, text : {"*", "localhost"}, list : {{}}]
    \cup [type : {"list"}, text : {""}, list : SUBSET Addrs]

\* A request reaches the dependency.
NetworkRequest ==
  /\ np_pc \in {"waiting", "admitted", "rejected"}
  /\ \E host \in Addrs : client_host' = host
  /\ np_pc' = "checking"
  /\ np_status' = 0
  /\ UNCHANGED <<backVars, tkVars, opVars, allowed_ip_addresses>>

\* 11-23: the body.  Returning (15) or reaching the end admits the request;
\* the HTTPException (20-23) rejects it.
network_policies_check ==
  /\ np_pc = "checking"
  /\ IF allowed_ip_addresses.type = "str" /\ allowed_ip_addresses.text = "*"
     THEN /\ np_pc' = "admitted"
          /\ UNCHANGED np_status
     ELSE IF allowed_ip_addresses.type = "list"
             /\ client_host \in allowed_ip_addresses.list
     THEN /\ np_pc' = "rejected"
          /\ np_status' = HTTP_403_FORBIDDEN
     ELSE /\ np_pc' = "admitted"
          /\ UNCHANGED np_status
  /\ UNCHANGED <<backVars, tkVars, opVars, allowed_ip_addresses, client_host>>

InitNetwork ==
  /\ BackIdle
  /\ TickIdle
  /\ OpenIdle
  /\ allowed_ip_addresses \in AllowedSettings
  /\ client_host = 0
  /\ np_pc = "waiting"
  /\ np_status = 0

NextNetwork == NetworkRequest \/ network_policies_check

SpecNetwork == InitNetwork /\ [][NextNetwork]_vars

\* ------------------------------------------------ claims on backtest
\* What the claims say of a consumed candidate c of the request.
CandEntryIndex(c) == c.occurence + 1
CandInData(c) == CandEntryIndex(c) < NRows(dataset)
CandPrice(c) ==
  Cell(dataset, CandEntryIndex(c),
       IF c.direction = BUY THEN TICKS_BID_INDEX ELSE TICKS_ASK_INDEX)
CandUp(c) == ResultUp(dataset, CandEntryIndex(c), CandPrice(c), c)
CandDown(c) == ResultDown(dataset, CandEntryIndex(c), CandPrice(c), c)
\* Candidate i of the request is one whose scans the claims speak of.
Scanned(i) == PositionHas(request[i].direction) /\ CandInData(request[i])
OutOfDataAt == {i \in 1..Len(request) : ~CandInData(request[i])}
\* The number of candidates before the first out-of-data one, once the run
\* has returned (the candidates consumed are then the whole request, or end
\* with the one that stopped the run).
ExpectedRecords ==
  IF OutOfDataAt = {} THEN Len(request) ELSE SetMin(OutOfDataAt) - 1

\* C1: for a request with len(direction) = len(starting_indexes),
\* directions of Position and no candidate on the last
\* row of the tick matrix, the run does not fail, a finished run holds exactly
\* one record per candidate before the first out-of-data candidate, and every
\* record has result in {PROFIT, LOSS, PENDING} and status in {CLOSED, PENDING}.
C1_OneRecordPerCandidate ==
  (/\ pc \in {"loop", "returned", "raised"}
   /\ same_length
   /\ \A i \in 1..Len(request) :
        /\ PositionHas(request[i].direction)
        /\ CandEntryIndex(request[i]) # NRows(dataset))
  => /\ pc # "raised"
     /\ pc = "returned" => Len(result) = ExpectedRecords
     /\ \A i \in 1..Len(result) :
          /\ result[i].result \in {PROFIT, LOSS, PENDING}
          /\ result[i].status \in {CLOSED, PENDING}

\* C2: a BUY or SELL candidate both of whose scans return None gets a record
\* with result PENDING and status PENDING.
C2_BothNoneIsPending ==
  \A i \in 1..Len(request) :
    (Scanned(i) /\ CandUp(request[i]) = None /\ CandDown(request[i]) = None)
    => /\ Len(result) >= i
       /\ result[i].result = PENDING
       /\ result[i].status = PENDING

\* C3: in every record of a BUY or SELL candidate whose two scans are both
\* non-null the classification is the one result_up < result_down decides: BUY
\* is PROFIT/CLOSED if result_up < result_down and LOSS/CLOSED otherwise, SELL
\* is LOSS/CLOSED if result_up < result_down and PROFIT/CLOSED otherwise.
C3_ComparisonDecides ==
  \A i \in 1..Len(result) :
    LET r == result[i]
        up == ResultUp(dataset, r.entry_point_index, r.entry_point, r)
        down == ResultDown(dataset, r.entry_point_index, r.entry_point, r)
    IN (PositionHas(r.direction) /\ up # None /\ down # None)
       => /\ r.status = CLOSED
          /\ r.result = IF (r.direction = BUY) <=> (up < down) THEN PROFIT ELSE LOSS

\* C3's case: a run that has emitted the record of a BUY candidate and the
\* record of a SELL candidate, both scans non-null for each.
C3_Witness ==
  /\ \E i \in 1..Len(result) : result[i].direction = BUY
  /\ \E i \in 1..Len(result) : result[i].direction = SELL
  /\ \A i \in 1..Len(result) :
       CandUp(request[i]) # None /\ CandDown(request[i]) # None

\* C4: a BUY or SELL candidate exactly one of whose scans returns None raises
\* nothing and gets a record.
C4_OneNoneHandled ==
  \A i \in 1..Len(request) :
    (Scanned(i) /\ ((CandUp(request[i]) = None) # (CandDown(request[i]) = None)))
    => /\ raised = "none"
       /\ Len(result) >= i

\* C5: every emitted record with result PENDING has status PENDING and every
\* record with result PROFIT or LOSS has status CLOSED.
C5_ResultStatusPaired ==
  \A i \in 1..Len(result) :
    /\ result[i].result = PENDING => result[i].status = PENDING
    /\ result[i].result \in {PROFIT, LOSS} => result[i].status = CLOSED

\* C5's case: records have been emitted, with a PROFIT and with a LOSS.
C5_Witness ==
  /\ \E i \in 1..Len(result) : result[i].result = PROFIT
  /\ \E i \in 1..Len(result) : result[i].result = LOSS

\* C10: a candidate whose entry index is no row of the tick matrix stops the
\* run: it is the last one consumed, nothing is raised and the run returns.
C10_OutOfDataStops ==
  \A i \in 1..Len(request) :
    ~CandInData(request[i])
    => /\ i = Len(request)
       /\ raised = "none"
       /\ pc = "returned"

C12_RecordsCarryRequest ==
  /\ Len(result) <= Len(request)
  /\ \A i \in 1..Len(result) :
       /\ result[i].entry_point_index = request[i].occurence + 1
       /\ result[i].direction = request[i].direction
       /\ result[i].take_profit = request[i].take_profit
       /\ result[i].stop_loss = request[i].stop_loss

\* C12's case: two records of candidates that differ in direction, with a
\* take_profit that is not the stop_loss.
C12_Witness ==
  /\ Len(result) = 2
  /\ PositionHas(request[1].direction) /\ PositionHas(request[2].direction)
  /\ request[1].direction # request[2].direction
  /\ request[1].take_profit # request[1].stop_loss

\* C13: the entry_point of a BUY record is the bid column of the tick row at
\* its entry index, that of a SELL record the ask column of that row.
C13_EntryPriceColumn ==
  \A i \in 1..Len(result) :
    LET r == result[i]
    IN /\ r.direction = BUY
            => r.entry_point = Cell(dataset, r.entry_point_index, TICKS_BID_INDEX)
       /\ r.direction = SELL
            => r.entry_point = Cell(dataset, r.entry_point_index, TICKS_ASK_INDEX)

\* C13's case: a BUY record and a SELL record, each on a row whose bid and ask
\* differ.
C13_Witness ==
  /\ \E i \in 1..Len(result) :
       /\ result[i].direction = BUY
       /\ Cell(dataset, result[i].entry_point_index, TICKS_BID_INDEX)
            # Cell(dataset, result[i].entry_point_index, TICKS_ASK_INDEX)
  /\ \E i \in 1..Len(result) :
       /\ result[i].direction = SELL
       /\ Cell(dataset, result[i].entry_point_index, TICKS_BID_INDEX)
            # Cell(dataset, result[i].entry_point_index, TICKS_ASK_INDEX)

\* C14: a candidate whose direction is neither BUY nor SELL ends the run with
\* an error and gets no record: it is the last candidate consumed, the run is
\* no longer in its loop, and the records are those of the candidates before.
C14_UnknownDirectionAborts ==
  \A i \in 1..Len(request) :
    (CandInData(request[i]) /\ ~PositionHas(request[i].direction))
    => /\ i = Len(request)
       /\ pc # "loop"
       /\ Len(result) = i - 1

\* C15: a request with len(direction) # len(starting_indexes) is aborted
\* before any candidate: no candidate is consumed, no record exists, nothing
\* but the abort happens.
C15_LengthMismatchAborts ==
  ~same_length => /\ pc = "aborted"
                  /\ request = <<>>
                  /\ result = <<>>

\* C15's case: the call was made with vectors of different lengths.
C15_Witness == pc = "aborted" /\ ~same_length

\* ------------------------------------------------- claims on checker
\* The boundary condition of the claims at row starting_index + k, on the
\* direction's own column.
OwnColumn(direction) == IF direction = BUY THEN TICKS_BID_INDEX ELSE TICKS_ASK_INDEX
Touched(k) ==
  LET v == Cell(dataset, ck_args.starting_index + k, OwnColumn(ck_args.direction))
  IN IF ck_args.direction = BUY
     THEN v >= ck_args.entry_point + ck_args.take_profit
     ELSE v <= ck_args.entry_point - Abs(ck_args.stop_loss)
TouchedAt == {k \in 0..(NRows(dataset) - ck_args.starting_index - 1) : Touched(k)}
FirstTouch == IF TouchedAt = {} THEN None ELSE SetMin(TouchedAt)
Returned == ck_pc = "returned" /\ PositionHas(ck_args.direction)

\* C6: checker returns the least k >= 0 at which the direction's own column
\* (bid for BUY, ask for SELL) at row starting_index + k meets the boundary,
\* and None when there is no such k.
C6_FirstRowOfOwnColumn == Returned => ck_ret = FirstTouch

\* C7: checker returns 0 when the boundary condition holds at the starting
\* row, and None only when no row from starting_index on satisfies it.
C7_ZeroAtStartingRow ==
  Returned => /\ 0 \in TouchedAt => ck_ret = 0
              /\ ck_ret = None => TouchedAt = {}

\* C8: checker with any delta >= 1 returns what it returns with a delta that
\* covers the whole remaining matrix in one chunk.
C8_ChunkingNotObservable ==
  Returned => ck_ret = Checker(dataset, ck_args.direction, ck_args.starting_index,
                               ck_args.entry_point, ck_args.take_profit,
                               ck_args.stop_loss, NRows(dataset))

\* C9: if checker returns offset k for BUY and take-profit t, then for every
\* t2 < t it returns an offset k2 <= k, never None.
C9_CheckerMonotone ==
  (Returned /\ ck_args.direction = BUY /\ ck_ret # None)
  => \A t2 \in {t \in TpVals \cup {-1} : t < ck_args.take_profit} :
       LET k2 == Checker(dataset, BUY, ck_args.starting_index, ck_args.entry_point,
                         t2, ck_args.stop_loss, ck_args.delta)
       IN k2 # None /\ k2 <= ck_ret

\* ------------------------------------------ claims on filter_dataset
\* What the claims say of a rule: its operands' column names, the raw columns
\* a frame of the model carries, and the relation at one position.
ElementOf(e) == Get(e, ELEMENT, "")
FrameColumns == {"Open", "Close"}
Resolvable(e) ==
  ElementOf(e) \in AvailableRawColumns \cup AvailableTechincalIndicators
OverRawColumns(rule) ==
  /\ ElementOf(rule.first_element) \in FrameColumns
  /\ ElementOf(rule.second_element) \in FrameColumns
Holds(relation, a, b) ==
  CASE relation = ">" -> a > b
    [] relation = ">=" -> a >= b
    [] relation = "<" -> a < b
    [] relation = "<=" -> a <= b
    [] relation = "==" -> a = b
    [] OTHER -> FALSE
RuleHoldsAt(frame, rule, i) ==
  Holds(rule.relation, frame[i + 1][ElementOf(rule.first_element)],
        frame[i + 1][ElementOf(rule.second_element)])
Matching(frame, rules) ==
  {i \in Index(frame) : \A k \in 1..Len(rules) : RuleHoldsAt(frame, rules[k], i)}
FilterEnded == fd_pc \in {"returned", "raised"}
IndicatorOperands ==
  {e \in UNION {{filters[k].first_element, filters[k].second_element} :
                  k \in 1..Len(filters)} :
     ElementOf(e) \in AvailableTechincalIndicators}

\* C16: a call with a non-empty list of rules, each with a relation of
\* Relation over two raw columns of the frame, returns, and what it returns
\* is exactly the set of positions at which every rule's relation holds.
C16_ReturnsMatchingPositions ==
  (/\ FilterEnded
   /\ filters # <<>>
   /\ \A k \in 1..Len(filters) :
        filters[k].relation \in Relation /\ OverRawColumns(filters[k]))
  => /\ fd_pc = "returned"
     /\ indexes_list = Matching(data_frame, filters)

\* C17: for every way of splitting the rules of a call into R1 followed by
\* R2, the call and the calls with R1 and with R2 alone return sets, and the
\* set the call returns is a subset of the intersection of the other two.
C17_ConjunctionProperty ==
  FilterEnded
  => \A n \in 0..Len(filters) :
       LET R1 == FilterDataset(data_frame, SubSeq(filters, 1, n))
           R2 == FilterDataset(data_frame, SubSeq(filters, n + 1, Len(filters)))
       IN /\ fd_pc = "returned"
          /\ R1.exc = "none" /\ R2.exc = "none"
          /\ indexes_list \subseteq (R1.indexes \cap R2.indexes)

\* C18: once a rule whose relation is none of >, >=, <, <=, == has been
\* consumed, the rule has matched nothing: no exception has left the call and
\* the running index set is empty.
C18_UnknownRelationMatchesNothing ==
  (\E k \in 1..Len(filters) : filters[k].relation \notin Relation)
  => /\ fd_raised = "none"
     /\ indexes_list = {}

C20_WarmUpNeverMatches ==
  (FilterEnded /\ IndicatorOperands # {})
  => /\ fd_pc = "returned"
     /\ \A e \in IndicatorOperands :
          \A i \in indexes_list : i >= Get(e, PERIOD, MovingAveragePeriod) - 1

\* ------------------------------------------------------ later claims
\* C25: the record of a candidate is the one the candidate gets when it is the
\* only candidate of a run on the same tick matrix: its entry price and its
\* classification are functions of the candidate and the matrix alone.
Alone(c) == LoopBody(dataset, c, NoPrice, UNBOUND, UNBOUND)
C25_CandidatesDoNotInterfere ==
  \A i \in 1..Len(result) :
    LET a == Alone(request[i])
    IN /\ a.kind = "append"
       /\ result[i] = BacktestRecord(request[i], request[i].occurence + 1,
                                     a.price[1], a.trade_status, a.trade_result)

\* The least number of chunks of delta rows that cover n rows.
CeilDiv(n, d) == (n + d - 1) \div d

\* C26: checker terminates.  The scan index strictly increases on every
\* iteration that does not return, it never gets more than
\* ceil((rows - starting_index) / delta) chunks past the starting index, and
\* every call returns.
C26_CheckerTerminates ==
  /\ [][(ck_pc = "loop" /\ ck_pc' = "loop") => current_index' > current_index]_vars
  /\ [](ck_pc = "loop" =>
          current_index - ck_args.starting_index
            <= CeilDiv(NRows(dataset) - ck_args.starting_index, ck_args.delta)
               * ck_args.delta)
  /\ (ck_pc = "loop") ~> (ck_pc = "returned")

\* C26's case: a call that has returned after at least two iterations that
\* found nothing.
C26_Witness ==
  /\ ck_pc = "returned"
  /\ PositionHas(ck_args.direction)
  /\ current_index >= ck_args.starting_index + 2 * ck_args.delta

\* C27: a call with an empty rule list returns the set of all positions
\* 0 .. n-1 of a frame of n bars.
C27_EmptyRulesReturnAll ==
  (fd_pc = "returned" /\ filters = <<>>)
  => fd_ret.item = 0..(Len(data_frame) - 1)

\* C27's case: a call on a frame with bars has returned without a rule.
C27_Witness ==
  /\ fd_pc = "returned"
  /\ filters = <<>>
  /\ Len(data_frame) >= 2

\* ------------------------------------------ claims on Asset.sampling
\* The two ranges of the claims and the history of the target column.
StepsInRange == sp_args.steps_forward \in 2..254
SamplesInRange == sp_args.samples \in 1..9999
SamplingCalled == sp_pc \in {"valid", "returned", "raised"}
SamplingEnded == sp_pc \in {"returned", "raised"}
History == Prices(asset_result, sp_args.column).values

\* C22: a call with steps_forward outside 2..254 or samples outside 1..9999
\* returns None without an exception and without a draw; a call with both in
\* range and a known sampling method raises nothing and, when it returns,
\* returns a result.
C22_RangeChecks ==
  SamplingCalled
  => IF ~(StepsInRange /\ SamplesInRange)
     THEN /\ sp_pc = "returned"
          /\ sp_ret.kind = "None"
          /\ sampling = <<>>
          /\ sp_raised = "none"
     ELSE sp_args.sampling_method \in SamplingMethods
          => /\ sp_raised = "none"
             /\ sp_pc = "returned" => sp_ret.kind = "tuple"

\* C23: a call with valid steps_forward and samples and a known method on a
\* history of h values ends by returning a matrix of `samples` rows and
\* h + steps_forward columns; each row starts with the history, its entry h
\* is the last historical value and every later entry is the entry before it
\* plus one draw.
C23_SampledMatrix ==
  (/\ SamplingEnded
   /\ StepsInRange /\ SamplesInRange
   /\ sp_args.sampling_method \in SamplingMethods)
  => /\ sp_pc = "returned"
     /\ sp_ret.kind = "tuple"
     /\ Len(sp_ret.y) = sp_args.samples
     /\ \A r \in 1..Len(sp_ret.y) :
          LET row == sp_ret.y[r]
              h == Len(History)
          IN /\ Len(row) = h + sp_args.steps_forward
             /\ SubSeq(row, 1, h) = History
             /\ row[h + 1] = History[h]
             /\ \A k \in 1..(sp_args.steps_forward - 1) :
                  row[h + 1 + k] = row[h + k] + sampling[r][k]

\* C24: under the uniform method every draw lies in
\* [0, max(price) - min(price)] of the history of the target column, and
\* every returned path is non-decreasing from the last historical value on.
C24_UniformNonDecreasing ==
  (sp_args.sampling_method = UNIFORM_DISTRIBUTION /\ SamplingEnded)
  => /\ \A r \in 1..Len(sampling) : \A k \in 1..Len(sampling[r]) :
          /\ sampling[r][k] >= 0
          /\ sampling[r][k] <= SeqMax(History) - SeqMin(History)
     /\ sp_ret.kind = "tuple"
          => \A r \in 1..Len(sp_ret.y) :
               \A j \in Len(History)..(Len(sp_ret.y[r]) - 1) :
                 sp_ret.y[r][j + 1] >= sp_ret.y[r][j]

\* C24's case: a uniform sampling of two rows of three steps has returned
\* and a draw in it is above 0.
C24_Witness ==
  /\ sp_pc = "returned"
  /\ sp_ret.kind = "tuple"
  /\ sp_args.sampling_method = UNIFORM_DISTRIBUTION
  /\ sp_args.samples = 2
  /\ sp_args.steps_forward = 3
  /\ \E r \in 1..2 : \E k \in 1..2 : sampling[r][k] > 0

\* -------------------------------------- claims on technical_column
\* C21: the column of an indicator operand is computed, and with the period
\* the operand gives as PERIOD, or the configured period when it gives none:
\* the length handed to the indicator is that period and exactly the
\* positions before period - 1 are undefined.
OperandPeriod ==
  IF \E kv \in additional_information : kv[1] = PERIOD
  THEN (CHOOSE kv \in additional_information : kv[1] = PERIOD)[2]
  ELSE MovingAveragePeriod
C21_OperandPeriodUsed ==
  (tc_pc = "returned" /\ column_type \in AvailableTechincalIndicators)
  => /\ tc_ret.kind = "ndarray"
     /\ tc_ret.length = OperandPeriod
     /\ \A i \in 1..Len(tc_ret.values) :
          (tc_ret.values[i] = NaN) <=> (i < OperandPeriod)

\* ------------------------------------- claims on the service functions
\* C29: whenever get_ask_of_symbol or get_bid_of_symbol returns, it returns a
\* price greater than 0, never an absent value, also when the first tick read
\* was not positive and a later one was.
C29_PositivePriceReturned ==
  (tk_pc = "returned") => (tk_ret # Absent /\ tk_ret[1] > 0)

\* The order passed the checks made before the risk limits are looked at.
EarlyStatuses == {"NO_TICKER_PROVIDED", "TICKER_NOT_FOUND", "MARKET_CLOSED",
                  "NO_VOLUME_PROVIDED", "NO_OPERATION_SPECIFIED",
                  "NO_FILLING_TYPE_FOUND"}
\* Neither the order nor risk management gives the level.
TakeProfitUnknown == order.take_profit = Absent /\ adjust_take_profit = 0
StopLossUnknown == order.stop_loss = Absent /\ adjust_stop_loss = 0

\* C28: while allow_no_risk_limits is false every request open_position
\* sends has both 'tp' and 'sl', whether the levels came from the order or
\* from risk management; when one of them cannot be determined the function
\* returns NO_TAKE_PROFIT_SPECIFIED or NO_STOP_LOSS_SPECIFIED and sends
\* nothing.
C28_RiskLimitsOnEveryOrder ==
  (op_pc \in {"returned", "raised"} /\ ~allow_no_risk_limits) =>
    /\ \A i \in 1..Len(sent) : {"tp", "sl"} \subseteq DOMAIN sent[i]
    /\ (/\ op_pc = "returned"
        /\ op_status \notin EarlyStatuses
        /\ TakeProfitUnknown \/ StopLossUnknown)
         => /\ op_status \in {"NO_TAKE_PROFIT_SPECIFIED", "NO_STOP_LOSS_SPECIFIED"}
            /\ sent = <<>>

\* C30: with a list of allowed addresses a request is admitted when its
\* client address is in the list and rejected with 403 when it is not; with
\* the setting '*' every request is admitted.
C30_AllowListAdmits ==
  (np_pc \in {"admitted", "rejected"}) =>
    /\ (allowed_ip_addresses.type = "list") =>
          IF client_host \in allowed_ip_addresses.list
          THEN np_pc = "admitted"
          ELSE np_pc = "rejected" /\ np_status = HTTP_403_FORBIDDEN
    /\ (allowed_ip_addresses.type = "str" /\ allowed_ip_addresses.text = "*") =>
          np_pc = "admitted"

====
